---- MODULE Spec2Model ----
(***************************************************************************)
(* A model of the PukiWiki to MkDocs converter (src/python/pw_to_mkdown3.py). *)
(*                                                                         *)
(* Text is a sequence of tokens.  A token is either one special character  *)
(* (a regex-relevant character of the source's patterns, written as a      *)
(* one-character string, or the URL escapes "%2F" and "%3A") or a word: a   *)
(* maximal run of \w characters kept as one element ("http", "index").     *)
(* So "./c" is <<".", "/", "c">> and "http://x.org" is                     *)
(* <<"http", ":", "/", "/", "x", ".", "org">>.                              *)
(***************************************************************************)
EXTENDS Integers, Sequences, FiniteSets, TLC

VARIABLES
    lang,       \* self.lang of the converter
    tree,       \* the source tree: its attachment files and its wiki files per language
    fs,         \* the output directory: the content of each file, by relative path
    run,        \* how many times main has been started
    mpc,        \* position in main: "init", the pass under way, "done" or "crashed"
    phase,      \* position in batch_convert_directory: "attach" or "pages"
    ai,         \* index of the next attachment file of the pass
    si,         \* index of the next wiki source file of the pass
    cpc,        \* position in convert_pukiwiki_file, "idle" outside a call
    cv,         \* locals of the call: the source file, orig_content, content, target_file
    trace,      \* the steps the call has run, and the terminal states it has reached
    written,    \* the files the call has written, in order
    called,     \* the source files passed to convert_pukiwiki_file in this pass
    logged,     \* the source files whose failure logger.error reported in this pass
    outcomes,   \* the terminal state of each call that has returned in this pass
    copied,     \* the attachment files process_attach returned from in this pass
    passes,     \* the languages whose pass has started in this run
    pass_writes,\* who wrote which Markdown path in this pass
    md_seen,    \* the Markdown first written for a source file under a language
    lk_page,    \* link resolver: page_name (a Path: sequence of parts)
    lk_text,    \* link resolver: the display text written in the token
    lk_target,  \* link resolver: the target written in the token
    lk_res,     \* link resolver: result of each call made so far
    tx_body,    \* markup engine: the page body the rewrites start from
    tx_log,     \* markup engine: the rewrite steps applied so far, in order
    tx_prev,    \* markup engine: the text before the last step applied
    tx_cur,     \* markup engine: the text after the last step applied
    tx_hex,     \* filename codec: the file base given to decode_name
    tx_name,    \* filename codec: what decode_name returned or raised
    tp_page,    \* path prefix: the page_name given to get_top_dir
    tp_dir      \* path prefix: what get_top_dir returned under each language so far

lkvars == <<lk_page, lk_text, lk_target, lk_res>>

walkvars == <<tree, fs, run, mpc, phase, ai, si, cpc, cv, trace, written, called,
              logged, outcomes, copied, passes, pass_writes, md_seen>>

txvars == <<tx_body, tx_log, tx_prev, tx_cur, tx_hex, tx_name>>

tpvars == <<tp_page, tp_dir>>

vars == <<lang, walkvars, lkvars, txvars, tpvars>>

----------------------------------------------------------------------------
(* Text helpers *)

\* the backquote character, which a string of this language cannot hold
BackTick == "BACKTICK"

Special == {BackTick, "[", "]", "(", ")", "{", "}", ">", "<", ":", "/", ".", "#", "?",
            "*", "|", "\\", "\"", "%2F", "%3A", "%", ",", ";", "&", "!",
            "\n", " ", "'", "~", "-", "+", "="}

\* \w of the regex dialect: a word token
IsWord(t) == t \notin Special

NL == "\n"

NoNL(s) == \A i \in 1..Len(s) : s[i] # NL

\* what ".+$" / ".*$" may cover of s (no MULTILINE): "$" matches at the end
\* or just before a final newline
LineBody(s) == IF s # <<>> /\ s[Len(s)] = NL THEN SubSeq(s, 1, Len(s) - 1) ELSE s

Drop(s, n) == SubSeq(s, n + 1, Len(s))

StartsWith(s, p) == Len(s) >= Len(p) /\ SubSeq(s, 1, Len(p)) = p

RECURSIVE RunLen(_, _, _)
\* length of the maximal run of tokens outside excl that starts at s[i]
RunLen(s, i, excl) ==
    IF i > Len(s) \/ s[i] \in excl THEN 0 ELSE 1 + RunLen(s, i + 1, excl)

RECURSIVE Join(_, _)
\* sep.join(parts)
Join(parts, sep) ==
    IF parts = <<>> THEN <<>>
    ELSE IF Len(parts) = 1 THEN parts[1]
    ELSE parts[1] \o sep \o Join(Tail(parts), sep)

\* a step that raised instead of returning a text
Raised == <<"<raised>">>

RECURSIVE Split(_, _)
\* s.split(sep)
Split(s, sep) ==
    LET n == RunLen(s, 1, {sep})
    IN  IF n = Len(s) THEN <<s>>
        ELSE <<SubSeq(s, 1, n)>> \o Split(Drop(s, n + 1), sep)

White == {" ", NL}

RECURSIVE Strip(_)
\* s.strip()
Strip(s) ==
    IF s = <<>> THEN s
    ELSE IF s[1] \in White THEN Strip(Tail(s))
    ELSE IF s[Len(s)] \in White THEN Strip(SubSeq(s, 1, Len(s) - 1))
    ELSE s

\* os.path.basename(img_path)
Basename(path) ==
    LET hits == {k \in 1..Len(path) : path[k] = "/"}
    IN  IF hits = {} THEN path
        ELSE Drop(path, CHOOSE k \in hits : \A h \in hits : h <= k)

\* Path(img_path).stem: the final component without its last suffix
Stem(path) ==
    LET name == Basename(IF path # <<>> /\ path[Len(path)] = "/"
                         THEN SubSeq(path, 1, Len(path) - 1) ELSE path)
        hits == {k \in 2..(Len(name) - 1) : name[k] = "."}
    IN  IF hits = {} THEN name
        ELSE SubSeq(name, 1, (CHOOSE k \in hits : \A h \in hits : h <= k) - 1)

----------------------------------------------------------------------------
(* Filename codec: the unsafe-character substitution of decode_name and of  *)
(* the cross-language branch, re.sub(r'[\\:*?"<>|]+', "_", s)              *)

Unsafe == {"\\", ":", "*", "?", "\"", "<", ">", "|"}

RECURSIVE RunIn(_, _, _)
\* length of the maximal run of tokens inside incl that starts at s[i]
RunIn(s, i, incl) ==
    IF i > Len(s) \/ s[i] \notin incl THEN 0 ELSE 1 + RunIn(s, i + 1, incl)

RECURSIVE Sanitize(_)
Sanitize(s) ==
    IF s = <<>> THEN <<>>
    ELSE IF s[1] \in Unsafe
         THEN <<"_">> \o Sanitize(Drop(s, RunIn(s, 1, Unsafe)))
         ELSE <<s[1]>> \o Sanitize(Tail(s))

\* urllib.parse.unquote on the escapes of the alphabet
Unquote(s) ==
    [i \in 1..Len(s) |-> IF s[i] = "%2F" THEN "/" ELSE IF s[i] = "%3A" THEN ":" ELSE s[i]]

----------------------------------------------------------------------------
(* Paths (pathlib.Path): a sequence of parts, each part a text without "/" *)

\* str(path)
PathStr(p) == IF p = <<>> THEN <<".">> ELSE Join(p, <<"/">>)

\* path.parent
PathParent(p) == IF p = <<>> THEN <<>> ELSE SubSeq(p, 1, Len(p) - 1)

\* lang == "ja", on the text of a language name
is_default_lang(l) == l = <<"ja">>

\* str(Path("../" * npar))
Parents(npar) == IF npar = 0 THEN <<".">> ELSE Join([i \in 1..npar |-> <<".", ".">>], <<"/">>)

\* get_top_dir counting one directory for every page, whatever its depth
get_top_dir_one_level(page_name) ==
    IF PathStr(page_name) = <<"index">> THEN <<".">>
    ELSE Parents(1 + (IF is_default_lang(<<lang>>) THEN 0 ELSE 1))

get_top_dir(page_name) ==
    IF PathStr(page_name) = <<"index">> THEN <<".">>
    ELSE Parents(Len(page_name) + (IF is_default_lang(<<lang>>) THEN 0 ELSE 1))

----------------------------------------------------------------------------
(* Filename codec: try_decode and decode_name.  A file base is the hex text *)
(* found on disk; the byte string bytes.fromhex makes of it is named by    *)
(* that hex text, and the two codecs are the tables of what Python's       *)
(* euc_jp and utf-8 decoders return for it.  A character outside ASCII is  *)
(* the word "U" followed by its code point.                                *)

\* the hex texts bytes.fromhex accepts; every other text raises ValueError
ValidHex == {"46726F6E7450616765", "696E646578", "466F726D617452756C65",
             "612F62", "613A62", "615F62", "4F74686572", "6C6F676F2E706E67",
             "FF", "E38182", "A4A2", "C3A9"}

DecodeFail == <<"<UnicodeDecodeError>">>

\* the text both codecs give for a hex text of ASCII bytes
Ascii(h) ==
    CASE h = "46726F6E7450616765" -> <<"FrontPage">>
      [] h = "696E646578" -> <<"index">>
      [] h = "466F726D617452756C65" -> <<"FormatRule">>
      [] h = "612F62" -> <<"a", "/", "b">>
      [] h = "613A62" -> <<"a", ":", "b">>
      [] h = "615F62" -> <<"a", "_", "b">>
      [] h = "4F74686572" -> <<"Other">>
      [] h = "6C6F676F2E706E67" -> <<"logo", ".", "png">>
      [] OTHER -> DecodeFail

\* encoded_bytes.decode("euc_jp")
EucJp(h) ==
    CASE h = "A4A2" -> <<"U3042">>
      [] h = "C3A9" -> <<"U8FBF">>
      [] OTHER -> Ascii(h)

\* encoded_bytes.decode("utf-8")
Utf8(h) ==
    CASE h = "E38182" -> <<"U3042">>
      [] h = "C3A9" -> <<"U00E9">>
      [] OTHER -> Ascii(h)

None == <<"<None>">>

try_decode(encoded_bytes) ==
    IF EucJp(encoded_bytes) # DecodeFail THEN EucJp(encoded_bytes)
    ELSE IF Utf8(encoded_bytes) # DecodeFail THEN Utf8(encoded_bytes)
    ELSE None

\* the decoded name, or Raised: ValueError of bytes.fromhex, TypeError of
\* re.sub on None
decode_name(file_base) ==
    IF file_base \notin ValidHex THEN Raised
    ELSE IF try_decode(file_base) = None THEN Raised
    ELSE Sanitize(try_decode(file_base))

\* Path(text): the parts between "/", without empty and "." parts
PathOf(text) == SelectSeq(Split(text, "/"), LAMBDA part : part # <<>> /\ part # <<".">>)

\* path.with_suffix(suffix)
WithSuffix(path, suffix) ==
    IF path = <<>> THEN path
    ELSE SubSeq(path, 1, Len(path) - 1) \o <<Stem(path[Len(path)]) \o suffix>>

\* determine_target_filename without the FrontPage branch
determine_target_filename_verbatim(file_base) ==
    LET decoded_part == decode_name(file_base)
    IN  IF decoded_part = Raised THEN Raised
        ELSE PathOf(decoded_part \o <<".", "md">>)

\* the target Path of a source file with this base, or Raised
determine_target_filename(file_base) ==
    LET decoded_part == decode_name(file_base)
    IN  IF decoded_part = Raised THEN Raised
        ELSE IF decoded_part = <<"FrontPage">> THEN PathOf(<<"index", ".", "md">>)
        ELSE PathOf(decoded_part \o <<".", "md">>)

----------------------------------------------------------------------------
(* Link resolver: _convert_internal_links and its _repl *)

NoMatch == [ok |-> FALSE, len |-> 0, groups |-> <<>>]

\* re.search(r"/(\w+)/index\.php\?(.+)", link) tried at position i
CrossAt(link, i) ==
    LET n == RunIn(link, i + 1, {t \in {link[k] : k \in 1..Len(link)} : IsWord(t)})
        j == i + 1 + n
        rest == Drop(link, j + 4)
        n2 == RunLen(rest, 1, {NL})
    IN  IF /\ link[i] = "/"
           /\ n >= 1
           /\ j + 5 <= Len(link)
           /\ SubSeq(link, j, j + 4) = <<"/", "index", ".", "php", "?">>
           /\ n2 >= 1
        THEN [ok |-> TRUE, len |-> 0,
              groups |-> <<Join([k \in 1..n |-> <<link[i + k]>>], <<>>), SubSeq(rest, 1, n2)>>]
        ELSE NoMatch

\* the leftmost match of the cross-language pattern
CrossSearch(link) ==
    LET hits == {i \in 1..Len(link) : CrossAt(link, i).ok}
    IN  IF hits = {} THEN NoMatch
        ELSE CrossAt(link, CHOOSE i \in hits : \A k \in hits : i <= k)

\* which branch of _repl takes the link: the first test that matches
LinkClass(link) ==
    LET body == LineBody(link)
    IN  IF StartsWith(link, <<"#">>) /\ Len(body) >= 2 /\ NoNL(body) THEN "anchor"
        ELSE IF StartsWith(link, <<".", "/">>) /\ Len(body) >= 3 /\ NoNL(body) THEN "same_page"
        ELSE IF StartsWith(link, <<".", ".", "/">>) /\ NoNL(body) THEN "parent"
        ELSE IF CrossSearch(link).ok THEN "cross_language"
        ELSE IF StartsWith(link, <<"http", ":", "/", "/">>) THEN "external"
        ELSE "bare"

\* the part of _repl's result between the parentheses
LinkTarget(link, page_name) ==
    LET top_dir == get_top_dir(page_name)
        body == LineBody(link)
        cross == CrossSearch(link)
        class == LinkClass(link)
        langseg == IF is_default_lang(<<lang>>) THEN <<>> ELSE <<"/", lang>>
    IN  CASE class = "anchor" -> <<"#">> \o Drop(body, 1)
          [] class = "same_page" ->
                top_dir \o langseg \o <<"/">> \o PathStr(page_name) \o <<"/">> \o Drop(body, 2)
          [] class = "parent" ->
                top_dir \o langseg \o <<"/">> \o PathStr(PathParent(page_name))
                        \o <<"/">> \o Drop(body, 3)
          [] class = "cross_language" ->
                top_dir
                \o (IF is_default_lang(cross.groups[1]) THEN <<>>
                    ELSE <<"/">> \o cross.groups[1])
                \o <<"/">> \o Sanitize(Unquote(cross.groups[2]))
          [] class = "external" -> link
          [] OTHER -> top_dir \o langseg \o <<"/">> \o link

\* _repl(match, page_name): groups are the match's groups, one or two
_repl(groups, page_name) ==
    LET text == groups[1]
        link == IF Len(groups) = 2
                THEN (IF groups[2] # <<>> THEN groups[2] ELSE text)
                ELSE groups[1]
    IN  <<"[">> \o text \o <<"]", "(">> \o LinkTarget(link, page_name) \o <<")">>

\* "[[" g1 sep g2 "]]" at s[i], g1 a run outside excl1, g2 a run outside excl2
MatchTwo(s, i, excl1, sep, excl2) ==
    IF ~(i + 1 <= Len(s) /\ s[i] = "[" /\ s[i + 1] = "[") THEN NoMatch
    ELSE LET n1 == RunLen(s, i + 2, excl1)
             j == i + 2 + n1
             n2 == RunLen(s, j + 1, excl2)
             k == j + 1 + n2
         IN  IF /\ n1 >= 1 /\ j <= Len(s) /\ s[j] = sep
                /\ n2 >= 1 /\ k + 1 <= Len(s) /\ s[k] = "]" /\ s[k + 1] = "]"
             THEN [ok |-> TRUE, len |-> k + 2 - i,
                   groups |-> <<SubSeq(s, i + 2, j - 1), SubSeq(s, j + 1, k - 1)>>]
             ELSE NoMatch

\* r"\[\[([^>\]]+)>([^>\]]+)\]\]"
int_link_pat1(s, i) == MatchTwo(s, i, {">", "]"}, ">", {">", "]"})

\* r"\[\[([^:\]]+):([^>\]]+)\]\]"
int_link_pat2(s, i) == MatchTwo(s, i, {":", "]"}, ":", {">", "]"})

\* r"\[\[([^>\]]+)\]\]"
int_link_pat3(s, i) ==
    IF ~(i + 1 <= Len(s) /\ s[i] = "[" /\ s[i + 1] = "[") THEN NoMatch
    ELSE LET n == RunLen(s, i + 2, {">", "]"})
             k == i + 2 + n
         IN  IF n >= 1 /\ k + 1 <= Len(s) /\ s[k] = "]" /\ s[k + 1] = "]"
             THEN [ok |-> TRUE, len |-> k + 2 - i, groups |-> <<SubSeq(s, i + 2, k - 1)>>]
             ELSE NoMatch

LinkMatch(pat, s, i) ==
    IF pat = 1 THEN int_link_pat1(s, i)
    ELSE IF pat = 2 THEN int_link_pat2(s, i)
    ELSE int_link_pat3(s, i)

RECURSIVE LinkSub(_, _, _, _)
\* pattern.sub(partial(_repl, page_name=page_name), s), scanning from s[i]
LinkSub(pat, s, i, page_name) ==
    IF i > Len(s) THEN <<>>
    ELSE LET m == LinkMatch(pat, s, i)
         IN  IF m.ok
             THEN _repl(m.groups, page_name) \o LinkSub(pat, s, i + m.len, page_name)
             ELSE <<s[i]>> \o LinkSub(pat, s, i + 1, page_name)

_convert_internal_links(content, page_name) ==
    LinkSub(3, LinkSub(2, LinkSub(1, content, 1, page_name), 1, page_name), 1, page_name)

----------------------------------------------------------------------------
(* Image reference translator: process_image_options and _process_images *)

\* words of one character: every other word has at least two
OneCharWords ==
    {"_",
     "a", "b", "c", "d", "e", "f", "g", "h", "i", "j", "k", "l", "m",
     "n", "o", "p", "q", "r", "s", "t", "u", "v", "w", "x", "y", "z",
     "A", "B", "C", "D", "E", "F", "G", "H", "I", "J", "K", "L", "M",
     "N", "O", "P", "Q", "R", "S", "T", "U", "V", "W", "X", "Y", "Z",
     "0", "1", "2", "3", "4", "5", "6", "7", "8", "9"}


strip_quotes(text) ==
    IF Len(text) >= 2 /\ text[1] = text[Len(text)] /\ text[1] \in {"\"", "'", BackTick}
    THEN SubSeq(text, 2, Len(text) - 1)
    ELSE text

\* float(x) / 100.0 as Python prints it, for the numerals of the alphabet
Scale(x) ==
    IF x = <<"50">> THEN <<"0", ".", "5">>
    ELSE IF x = <<"100">> THEN <<"1", ".", "0">>
    ELSE IF x = <<"25">> THEN <<"0", ".", "25">>
    ELSE Raised

\* position of the last "%" of i that re.match(r"(.+)%", i) ends on, or 0
PercentEnd(i) ==
    LET line == SubSeq(i, 1, RunLen(i, 1, {NL}))
        hits == {k \in 2..Len(line) : line[k] = "%"}
    IN  IF hits = {} THEN 0 ELSE CHOOSE k \in hits : \A h \in hits : h <= k

RECURSIVE OptionList(_)
\* the options of process_image_options before the lightbox class, or Raised
OptionList(opts) ==
    IF opts = <<>> THEN <<>>
    ELSE LET i == opts[1]
             rest == OptionList(Tail(opts))
             k == PercentEnd(i)
             scl == Scale(Strip(SubSeq(i, 1, k - 1)))
         IN  IF rest = Raised THEN Raised
             ELSE IF i = <<"nolink">> \/ k = 0 THEN rest
             ELSE IF scl = Raised THEN Raised
             ELSE << <<"style", "=", "\"", "zoom", ":", " ">> \o scl \o <<"\"">> >> \o rest

\* process_image_options with the lightbox class put first
process_image_options_class_first(parts) ==
    LET opts == OptionList(Tail(parts))
        zoom_link == \A k \in 2..Len(parts) : parts[k] # <<"nolink">>
    IN  IF opts = Raised THEN Raised
        ELSE IF zoom_link THEN << <<".", "on", "-", "glb">> >> \o opts
        ELSE opts

\* a sequence of option texts, or Raised when float() raises ValueError
process_image_options(parts) ==
    LET opts == OptionList(Tail(parts))
        zoom_link == \A k \in 2..Len(parts) : parts[k] # <<"nolink">>
    IN  IF opts = Raised THEN Raised
        ELSE IF zoom_link THEN opts \o << <<".", "on", "-", "glb">> >>
        ELSE opts

\* _process_images._repl(match, para) on the directive body img_info
ImageRepl(img_info, para, page_name) ==
    LET parts == Split(img_info, ",")
        img_path == strip_quotes(Strip(parts[1]))
        alt_text == Stem(img_path)
        options == process_image_options(parts)
        rel_path == get_top_dir(page_name) \o <<"/", "assets", "/", "images", "/">>
                    \o PathStr(page_name) \o <<"/">> \o Basename(img_path)
        plain == <<"!", "[">> \o alt_text \o <<"]", "(">> \o rel_path \o <<")">>
        result == IF Len(options) > 0
                  THEN plain \o <<"{", " ">> \o Join(options, <<" ">>) \o <<" ", "}">>
                  ELSE plain
    IN  IF options = Raised THEN Raised
        ELSE IF para THEN <<NL>> \o result \o <<NL>>
        ELSE result

AtLineStart(s, i) == i = 1 \/ s[i - 1] = NL

\* self.img_pattern r"&ref\(([^)]+)\);" (para FALSE) and self.img_pattern2
\* r"^#ref\(([^)]+)\)" with re.MULTILINE (para TRUE), tried at s[i]
ImageMatch(para, s, i) ==
    LET n == RunLen(s, i + 3, {")"})
        k == i + 3 + n
    IN  IF /\ i + 2 <= Len(s)
           /\ s[i] = (IF para THEN "#" ELSE "&") /\ s[i + 1] = "ref" /\ s[i + 2] = "("
           /\ para => AtLineStart(s, i)
           /\ n >= 1 /\ k <= Len(s) /\ s[k] = ")"
           /\ ~para => (k + 1 <= Len(s) /\ s[k + 1] = ";")
        THEN [ok |-> TRUE, len |-> (IF para THEN k + 1 - i ELSE k + 2 - i),
              groups |-> <<SubSeq(s, i + 3, k - 1)>>]
        ELSE NoMatch

RECURSIVE ImageSub(_, _, _, _)
ImageSub(para, s, i, page_name) ==
    IF i > Len(s) THEN <<>>
    ELSE LET m == ImageMatch(para, s, i)
             r == ImageRepl(m.groups[1], para, page_name)
             rest == ImageSub(para, s, IF m.ok THEN i + m.len ELSE i + 1, page_name)
         IN  IF rest = Raised THEN Raised
             ELSE IF ~m.ok THEN <<s[i]>> \o rest
             ELSE IF r = Raised THEN Raised
             ELSE r \o rest

\* the new content, or Raised
_process_images(content, page_name) ==
    LET result == ImageSub(FALSE, content, 1, page_name)
    IN  IF result = Raised THEN Raised ELSE ImageSub(TRUE, result, 1, page_name)

----------------------------------------------------------------------------
(* Markup rule engine, first part: self.pukiwiki_rules, each applied with    *)
(* re.sub(pattern, replacement, content, flags=re.MULTILINE)               *)

\* a token of at least two characters
MultiChar(t) == (IsWord(t) /\ t \notin OneCharWords) \/ t \in {"%2F", "%3A"}

\* "$" under re.MULTILINE after s[i - 1]
AtLineEnd(s, i) == i > Len(s) \/ s[i] = NL

NoRule == [ok |-> FALSE, len |-> 0, out |-> <<>>]

\* r"^#access$" and r"^#contents$", replaced by ""
DirectiveRule(word, s, i) ==
    IF /\ AtLineStart(s, i) /\ i + 1 <= Len(s)
       /\ s[i] = "#" /\ s[i + 1] = word /\ AtLineEnd(s, i + 2)
    THEN [ok |-> TRUE, len |-> 2, out |-> <<>>]
    ELSE NoRule

\* r"^>([^>].*)$" (k = 1) and r"^>>([^>].*)$" (k = 2), replaced by "\n>\1", "\n>>\1"
QuoteRule(k, s, i) ==
    LET n == RunLen(s, i + k + 1, {NL})
    IN  IF /\ AtLineStart(s, i) /\ i + k <= Len(s)
           /\ \A d \in 0..(k - 1) : s[i + d] = ">"
           /\ s[i + k] # ">"
        THEN [ok |-> TRUE, len |-> k + 1 + n,
              out |-> <<NL>> \o [d \in 1..k |-> ">"] \o SubSeq(s, i + k, i + k + n)]
        ELSE NoRule

\* r"^\*\s*([^\s\*].+)$" (k = 1), r"^\*\*\s*..." (k = 2), r"^\*\*\*\s*..." (k = 3),
\* replaced by "## \1", "### \1", "#### \1"
HeadingRule(k, s, i) ==
    LET j == i + k + RunIn(s, i + k, White)
        n == RunLen(s, j + 1, {NL})
    IN  IF /\ AtLineStart(s, i) /\ j <= Len(s)
           /\ \A d \in 0..(k - 1) : s[i + d] = "*"
           /\ s[j] \notin White \cup {"*"}
           /\ MultiChar(s[j]) \/ n >= 1
        THEN [ok |-> TRUE, len |-> j + n + 1 - i,
              out |-> [d \in 1..(k + 1) |-> "#"] \o <<" ">> \o SubSeq(s, j, j + n)]
        ELSE NoRule

\* k copies of the sigil c, (.+?), k copies of c: the closing sigils nearest to
\* the opening ones, on the same line
InlineRule(c, k, open, close, s, i) ==
    LET line == RunLen(s, i + k, {NL})
        ends == {m \in 1..line : \A d \in 0..(k - 1) :
                    i + k + m + d <= Len(s) /\ s[i + k + m + d] = c}
        m == CHOOSE x \in ends : \A y \in ends : x <= y
    IN  IF /\ i + k - 1 <= Len(s)
           /\ \A d \in 0..(k - 1) : s[i + d] = c
           /\ ends # {}
        THEN [ok |-> TRUE, len |-> 2 * k + m,
              out |-> open \o SubSeq(s, i + k, i + k + m - 1) \o close]
        ELSE NoRule

\* the number of rules of self.pukiwiki_rules
NumRules == 11

\* self.pukiwiki_rules[r - 1] tried at s[i]
RuleMatch(r, s, i) ==
    CASE r = 1 -> DirectiveRule("access", s, i)
      [] r = 2 -> DirectiveRule("contents", s, i)
      [] r = 3 -> QuoteRule(1, s, i)
      [] r = 4 -> QuoteRule(2, s, i)
      [] r = 5 -> HeadingRule(1, s, i)
      [] r = 6 -> HeadingRule(2, s, i)
      [] r = 7 -> HeadingRule(3, s, i)
      [] r = 8 -> InlineRule("'", 2, <<"*", "*">>, <<"*", "*">>, s, i)
      [] r = 9 -> InlineRule("'", 3, <<"*">>, <<"*">>, s, i)
      [] r = 10 -> InlineRule("%", 2, <<"~", "~">>, <<"~", "~">>, s, i)
      [] OTHER -> InlineRule("_", 2, <<"<", "u", ">">>, <<"<", "/", "u", ">">>, s, i)

RECURSIVE RuleSub(_, _, _)
RuleSub(r, s, i) ==
    IF i > Len(s) THEN <<>>
    ELSE LET m == RuleMatch(r, s, i)
         IN  IF m.ok THEN m.out \o RuleSub(r, s, i + m.len)
             ELSE <<s[i]>> \o RuleSub(r, s, i + 1)

RECURSIVE ApplyRules(_, _)
\* the loop over self.pukiwiki_rules, from rule r on
ApplyRules(r, content) ==
    IF r > NumRules THEN content ELSE ApplyRules(r + 1, RuleSub(r, content, 1))

----------------------------------------------------------------------------
(* Markup rule engine, second part: _convert_others, on the list of lines *)

\* content.splitlines()
SplitLines(s) ==
    LET parts == Split(s, NL)
    IN  IF parts[Len(parts)] = <<>> THEN SubSeq(parts, 1, Len(parts) - 1) ELSE parts

RECURSIVE ReplaceAll(_, _, _)
\* re.sub of the literal text pat by rep
ReplaceAll(s, pat, rep) ==
    IF s = <<>> THEN <<>>
    ELSE IF StartsWith(s, pat) THEN rep \o ReplaceAll(Drop(s, Len(pat)), pat, rep)
    ELSE <<s[1]>> \o ReplaceAll(Tail(s), pat, rep)

RECURSIVE Flatten(_)
\* the concatenation of a list of lists of lines
Flatten(ls) == IF ls = <<>> THEN <<>> ELSE ls[1] \o Flatten(Tail(ls))

Fence == <<BackTick, BackTick, BackTick>>

\* lines that do not start with "//"
RemoveComments(lines) ==
    Flatten([k \in 1..Len(lines) |->
                IF StartsWith(lines[k], <<"/", "/">>) THEN <<>> ELSE <<lines[k]>>])

\* <pre> and </pre> to the fence
ConvertPre(lines) ==
    [k \in 1..Len(lines) |->
        ReplaceAll(ReplaceAll(lines[k], <<"<", "pre", ">">>, Fence),
                   <<"<", "/", "pre", ">">>, Fence)]

\* re.search(r"^ (.+)$", i) is not None
IsCodeLine(i) ==
    LET body == LineBody(i)
    IN  StartsWith(i, <<" ">>) /\ Len(body) >= 2 /\ NoNL(body)

RECURSIVE CodeBlocks(_, _)
\* the loop over lines with pre_block as its second argument; the fence the
\* code appends after the loop goes to the list it then discards
CodeBlocks(lines, pre_block) ==
    IF lines = <<>> THEN <<>>
    ELSE LET i == lines[1]
         IN  IF IsCodeLine(i)
             THEN (IF pre_block THEN <<>> ELSE <<Fence>>)
                  \o <<Drop(LineBody(i), 1)>> \o CodeBlocks(Tail(lines), TRUE)
             ELSE (IF pre_block THEN <<Fence>> ELSE <<>>)
                  \o <<i>> \o CodeBlocks(Tail(lines), FALSE)

\* r"^:(.+)\|(.+)$" on one line: the position of the "|" it splits on, or 0
DefBar(i) ==
    LET body == LineBody(i)
        hits == {k \in 3..(Len(body) - 1) : body[k] = "|"}
    IN  IF StartsWith(i, <<":">>) /\ NoNL(body) /\ hits # {}
        THEN CHOOSE k \in hits : \A h \in hits : h <= k
        ELSE 0

DefLists(lines) ==
    [k \in 1..Len(lines) |->
        LET i == lines[k]
            bar == DefBar(i)
            body == LineBody(i)
        IN  IF bar = 0 THEN i
            ELSE <<NL>> \o Strip(SubSeq(body, 2, bar - 1))
                 \o <<NL, ":", " ", " ", " ">> \o Strip(Drop(body, bar))]

\* r"^c{k}([^c].+)$" on one line
ListMarker(c, k, line) ==
    LET body == LineBody(line)
    IN  /\ Len(body) >= k + 1
        /\ \A d \in 1..k : body[d] = c
        /\ body[k + 1] # c
        /\ NoNL(Drop(body, k + 1))
        /\ MultiChar(body[k + 1]) \/ Len(body) >= k + 2

Spaces(n) == [d \in 1..n |-> " "]

NotList == <<"<not a list item>">>

\* is_list(line): the list item, or NotList for None
is_list(line) ==
    LET body == LineBody(line)
    IN  IF ListMarker("-", 3, line) THEN Spaces(8) \o <<"*", " ">> \o Drop(body, 3)
        ELSE IF ListMarker("-", 2, line) THEN Spaces(4) \o <<"*", " ">> \o Drop(body, 2)
        ELSE IF ListMarker("-", 1, line) THEN <<"*", " ">> \o Drop(body, 1)
        ELSE IF ListMarker("+", 3, line) THEN Spaces(8) \o <<"1", ".", " ">> \o Drop(body, 3)
        ELSE IF ListMarker("+", 2, line) THEN Spaces(4) \o <<"1", ".", " ">> \o Drop(body, 2)
        ELSE IF ListMarker("+", 1, line) THEN <<"1", ".", " ">> \o Drop(body, 1)
        ELSE NotList

RECURSIVE ListsIgnoringBlank(_, _, _)
\* the loop without prev_brank: a blank line before every item that does not
\* follow an item
ListsIgnoringBlank(lines, prev_list, prev_brank) ==
    IF lines = <<>> THEN <<>>
    ELSE LET i == lines[1]
             m == is_list(i)
         IN  IF m # NotList
             THEN (IF prev_list THEN <<m>> ELSE << <<>>, m >>)
                  \o ListsIgnoringBlank(Tail(lines), TRUE, i = <<>>)
             ELSE <<i>> \o ListsIgnoringBlank(Tail(lines), FALSE, i = <<>>)

RECURSIVE Lists(_, _, _)
\* the loop over lines with prev_list and prev_brank
Lists(lines, prev_list, prev_brank) ==
    IF lines = <<>> THEN <<>>
    ELSE LET i == lines[1]
             m == is_list(i)
         IN  IF m # NotList
             THEN (IF prev_list \/ prev_brank THEN <<m>> ELSE << <<>>, m >>)
                  \o Lists(Tail(lines), TRUE, i = <<>>)
             ELSE <<i>> \o Lists(Tail(lines), FALSE, i = <<>>)

\* name "(" (.*) close tried at s[i]: greedy to the last close of the line
CallAt(name, close, s, i) ==
    LET line == RunLen(s, i + 3, {NL})
        ends == {m \in 0..line : /\ i + 3 + m + Len(close) - 1 <= i + 2 + line
                                 /\ SubSeq(s, i + 3 + m, i + 2 + m + Len(close)) = close}
        m == CHOOSE x \in ends : \A y \in ends : y <= x
    IN  IF /\ i + 2 <= Len(s)
           /\ s[i] = name[1] /\ s[i + 1] = name[2] /\ s[i + 2] = "("
           /\ ends # {}
        THEN [ok |-> TRUE, len |-> 3 + m + Len(close), groups |-> <<SubSeq(s, i + 3, i + 2 + m)>>]
        ELSE NoMatch

\* re.search(name "\((.*)" close, s): the leftmost match
CallSearch(name, close, s) ==
    LET hits == {i \in 1..Len(s) : CallAt(name, close, s, i).ok}
    IN  IF hits = {} THEN NoMatch
        ELSE CallAt(name, close, s, CHOOSE i \in hits : \A k \in hits : i <= k)

RECURSIVE RemoveCalls(_, _, _, _)
\* re.sub(name "\(.*" close, "", s), scanning from s[i]
RemoveCalls(name, close, s, i) ==
    IF i > Len(s) THEN <<>>
    ELSE LET m == CallAt(name, close, s, i)
         IN  IF m.ok THEN RemoveCalls(name, close, s, i + m.len)
             ELSE <<s[i]>> \o RemoveCalls(name, close, s, i + 1)

\* &aname(idx); to an anchor tag on a line of its own
Anchors(lines) ==
    Flatten([k \in 1..Len(lines) |->
        LET i == lines[k]
            m == CallSearch(<<"&", "aname">>, <<")", ";">>, i)
        IN  IF m.ok
            THEN << <<"<", "a", " ", "id", "=", "\"">> \o m.groups[1]
                       \o <<"\"", ">", "<", "/", "a", ">">>,
                    RemoveCalls(<<"&", "aname">>, <<")", ";">>, i, 1) >>
            ELSE <<i>>])

YoutubeHead ==
    <<"\n", "<", "iframe", " ", "width", "=", "\"", "425", "\"", " ",
      "height", "=", "\"", "350", "\"", " ", "src", "=", "\"", "https", ":",
      "/", "/", "www", ".", "youtube", ".", "com", "/", "embed", "/">>

YoutubeMute ==
    <<"?", "mute", "=", "1", "&">>

YoutubeLoop ==
    <<"autoplay", "=", "1", "&", "loop", "=", "1", "&">>

YoutubeControls ==
    <<"controls", "=", "1", "&", "rel", "=", "0", "&", "playlist", "=">>

YoutubeTail ==
    <<"\"", "\n", " ", " ", " ", " ", " ", " ", " ", " ", "title", "=", "\"",
      "YouTube", " ", "video", " ", "player", "\"", "\n", " ", " ", " ", " ",
      " ", " ", " ", " ", "frameborder", "=", "\"", "0", "\"", "\n", " ",
      " ", " ", " ", " ", " ", " ", " ", "allow", "=", "\"", "autoplay", ";",
      " ", "encrypted", "-", "media", "\"", "\n", " ", " ", " ", " ", " ",
      " ", " ", " ", "allowfullscreen", ">", "\n", "<", "/", "iframe", ">",
      "\n", " ", " ", " ", " ", " ", " ", " ", " ", " ", " ", " ", " ", " ",
      " ", " ", " ">>

\* #youtube(id[,loop]) to the embedded player
Youtube(lines) ==
    [k \in 1..Len(lines) |->
        LET i == lines[k]
            m == CallSearch(<<"#", "youtube">>, <<")">>, i)
            args == Split(m.groups[1], ",")
            video_id == Strip(args[1])
            loop == IF Len(args) = 2 /\ args[2] = <<"loop">> THEN YoutubeLoop ELSE <<>>
        IN  IF m.ok
            THEN YoutubeHead \o video_id \o YoutubeMute \o loop \o YoutubeControls
                 \o video_id \o YoutubeTail
            ELSE i]

\* re.sub(r"^(.+)~$", r"\1<br/>", i)
LineBreaks(lines) ==
    [k \in 1..Len(lines) |->
        LET i == lines[k]
            body == LineBody(i)
        IN  IF Len(body) >= 2 /\ body[Len(body)] = "~" /\ NoNL(body)
            THEN SubSeq(body, 1, Len(body) - 1) \o <<"<", "br", "/", ">">>
                 \o Drop(i, Len(body))
            ELSE i]

_convert_others(content, page_name) ==
    Join(LineBreaks(Youtube(Anchors(Lists(DefLists(
            CodeBlocks(ConvertPre(RemoveComments(SplitLines(content))), FALSE)),
         FALSE, FALSE)))), <<NL>>)

----------------------------------------------------------------------------
(* The source tree and the output directory *)

TextFront == <<"*", "Hello", NL, "[", "[", "Other", ">", ".", "/", "sub", "]", "]">>

TextPlain == <<"plain", " ", "text">>

TextImage == <<"&", "ref", "(", "foo", ".", "png", ",", "50", "%", ",", "nolink", ")", ";">>

TextBadImage == <<"&", "ref", "(", "foo", ".", "png", ",", "big", "%", ")", ";">>

\* a wiki source file <base>.txt: its text as read with errors="replace", and
\* what the file system refuses for it ("unreadable": open of the source
\* raises; "md_denied", "backup_denied": open of that output file raises)
WikiFile(base, text, io) == [base |-> base, text |-> text, io |-> io]

JaFiles == {
    WikiFile("46726F6E7450616765", TextFront, "ok"),
    WikiFile("696E646578", TextPlain, "ok"),
    WikiFile("466F726D617452756C65", TextFront, "ok"),
    WikiFile("612F62", TextImage, "ok"),
    WikiFile("613A62", TextBadImage, "ok"),
    WikiFile("ZZ", TextPlain, "ok"),
    WikiFile("FF", TextPlain, "ok"),
    WikiFile("615F62", TextFront, "md_denied"),
    WikiFile("4F74686572", TextFront, "backup_denied"),
    WikiFile("E38182", TextPlain, "unreadable") }

EnLists == {
    <<>>,
    <<WikiFile("46726F6E7450616765", TextFront, "ok")>>,
    <<WikiFile("612F62", TextFront, "ok")>> }

\* an attachment file: the "_"-separated components of its name, its suffix
\* and its bytes
AttachFile(parts, suffix, data) == [parts |-> parts, suffix |-> suffix, data |-> data]

LogoOfFront == AttachFile(<<"46726F6E7450616765", "6C6F676F2E706E67">>, "", <<"PNG1">>)

LogoOfAB == AttachFile(<<"612F62", "6C6F676F2E706E67">>, "", <<"PNG2">>)

NoUnderscore == AttachFile(<<"6C6F676F2E706E67">>, "", <<"PNG3">>)

WithSuffixLog == AttachFile(<<"612F62", "6C6F676F2E706E67">>, ".log", <<"LOG">>)

AttachLists == {
    <<>>,
    <<LogoOfFront>>,
    <<WithSuffixLog, LogoOfAB>>,
    <<LogoOfFront, NoUnderscore, LogoOfAB>> }

\* the greatest number of wiki files of the default language
MaxPages == 2

\* the greatest number of times main is started on the same tree
MaxRuns == 2

\* the lists of at most n distinct files of S, in every order
RECURSIVE Listings(_, _)
Listings(S, n) ==
    IF n = 0 THEN {<<>>}
    ELSE LET shorter == Listings(S, n - 1)
         IN  shorter \cup {Append(l, f) : l \in {x \in shorter : Len(x) = n - 1},
                                          f \in S}

Distinct(l) == \A i, j \in 1..Len(l) : i # j => l[i].base # l[j].base

Trees ==
    {[attach |-> a, ja |-> j, en |-> e] :
        a \in AttachLists, j \in {l \in Listings(JaFiles, MaxPages) : Distinct(l)},
        e \in EnLists}

NoTree == [attach |-> <<>>, ja |-> <<>>, en |-> <<>>]

\* the file opened in mode "a": the content goes after what the file holds
WriteFileAppending(f, path, content) ==
    [p \in DOMAIN f \cup {path} |->
        IF p # path THEN f[p]
        ELSE IF path \in DOMAIN f THEN f[path] \o content ELSE content]

\* the file of this path with this content, in f
WriteFile(f, path, content) ==
    [p \in DOMAIN f \cup {path} |-> IF p = path THEN content ELSE f[p]]

NoFiles == [p \in {} |-> <<>>]

NoCall == [base |-> "", io |-> "", orig |-> <<>>, content |-> <<>>, target |-> <<>>]

\* source_path.glob("ja/attach/**/*")
attach_files == tree.attach

\* source_path.glob("ja/wiki/**/*.txt") or source_path.glob("ja/wiki.en/**/*.txt")
source_files == IF lang = "ja" THEN tree.ja ELSE tree.en

\* everything of the walk but the tree, as it is before main starts
WalkReset ==
    /\ mpc = "init" /\ phase = "attach" /\ ai = 1 /\ si = 1
    /\ cpc = "idle" /\ cv = NoCall /\ trace = <<>> /\ written = <<>>
    /\ called = <<>> /\ logged = <<>> /\ outcomes = <<>> /\ copied = <<>>
    /\ passes = <<>> /\ pass_writes = {}

WalkIdle ==
    /\ tree = NoTree /\ fs = NoFiles /\ run = 0 /\ md_seen = NoFiles
    /\ WalkReset

LinksIdle ==
    /\ lk_page = <<>> /\ lk_text = <<>> /\ lk_target = <<>>
    /\ lk_res = [c \in {"repl", "label", "colon", "bare"} |-> <<>>]

TextIdle ==
    /\ tx_body = <<>> /\ tx_log = <<>> /\ tx_prev = <<>> /\ tx_cur = <<>>
    /\ tx_hex = "" /\ tx_name = <<>>

\* get_top_dir is not being exercised on its own
TopIdle == tp_page = <<>> /\ tp_dir = <<>>

\* the converter constructed by main, self.lang not yet set
Init ==
    /\ lang = "unset"
    /\ tree \in Trees
    /\ fs = NoFiles /\ run = 1 /\ md_seen = NoFiles
    /\ WalkReset
    /\ LinksIdle
    /\ TextIdle
    /\ TopIdle

----------------------------------------------------------------------------
(* Page pipeline: convert_pukiwiki_file, one action per step.  A step that *)
(* raises ends the call in "Failed"; the exception reaches the walker.     *)

Terminal == {"Written", "Skipped", "Failed"}

\* the step has run and the call goes on at position next
Step(name, next, locals) ==
    /\ trace' = Append(trace, name)
    /\ cpc' = next
    /\ cv' = locals

\* the step has run and ended the call in the terminal state end
Ends(name, end) ==
    /\ trace' = Append(Append(trace, name), end)
    /\ cpc' = end
    /\ cv' = cv

walkpos == <<tree, run, mpc, phase, ai, si, called, logged, outcomes, copied, passes>>

\* encoding = self._detect_encoding(source_file)
DetectEncoding ==
    /\ cpc = "Discovered"
    /\ IF cv.io = "unreadable" THEN Ends("detect", "Failed")
       ELSE Step("detect", "EncodingDetected", cv)
    /\ UNCHANGED <<lang, walkpos, fs, written, pass_writes, md_seen, lkvars, txvars, tpvars>>

\* orig_content = f.read()
ReadSource ==
    /\ cpc = "EncodingDetected"
    /\ Step("read", "Read", [cv EXCEPT !.orig = source_files[si].text])
    /\ UNCHANGED <<lang, walkpos, fs, written, pass_writes, md_seen, lkvars, txvars, tpvars>>

\* the skip without its return: the call logs the skip and goes on
DetermineTargetWithoutReturn ==
    /\ cpc = "Read"
    /\ LET target_file == determine_target_filename(cv.base)
       IN  IF target_file = Raised THEN Ends("name", "Failed")
           ELSE IF PathStr(target_file) = <<"FormatRule", ".", "md">>
                THEN /\ trace' = Append(Append(trace, "name"), "Skipped")
                     /\ cpc' = "Named"
                     /\ cv' = [cv EXCEPT !.target = target_file]
           ELSE Step("name", "Named", [cv EXCEPT !.target = target_file])
    /\ UNCHANGED <<lang, walkpos, fs, written, pass_writes, md_seen, lkvars, txvars, tpvars>>

\* target_file = self.determine_target_filename(source_file), and the skip
DetermineTarget ==
    /\ cpc = "Read"
    /\ LET target_file == determine_target_filename(cv.base)
       IN  IF target_file = Raised THEN Ends("name", "Failed")
           ELSE IF PathStr(target_file) = <<"FormatRule", ".", "md">>
                THEN Ends("name", "Skipped")
           ELSE Step("name", "Named", [cv EXCEPT !.target = target_file])
    /\ UNCHANGED <<lang, walkpos, fs, written, pass_writes, md_seen, lkvars, txvars, tpvars>>

\* page_name = target_file.with_suffix("")
page_name == WithSuffix(cv.target, <<>>)

\* the Markdown file written as soon as the links are resolved
ConvertLinksWritingEarly ==
    /\ cpc = "Named"
    /\ Step("links", "LinksResolved",
            [cv EXCEPT !.content = _convert_internal_links(cv.orig, page_name)])
    /\ fs' = WriteFile(fs, << <<lang>> >> \o cv.target,
                      _convert_internal_links(cv.orig, page_name))
    /\ written' = Append(written, [path |-> << <<lang>> >> \o cv.target,
                                   content |-> _convert_internal_links(cv.orig, page_name)])
    /\ UNCHANGED <<lang, walkpos, pass_writes, md_seen, lkvars, txvars, tpvars>>

\* content = self._convert_internal_links(orig_content, page_name)
ConvertLinks ==
    /\ cpc = "Named"
    /\ Step("links", "LinksResolved",
            [cv EXCEPT !.content = _convert_internal_links(cv.orig, page_name)])
    /\ UNCHANGED <<lang, walkpos, fs, written, pass_writes, md_seen, lkvars, txvars, tpvars>>

\* content = self._process_images(content, page_name)
ProcessImages ==
    /\ cpc = "LinksResolved"
    /\ LET content == _process_images(cv.content, page_name)
       IN  IF content = Raised THEN Ends("images", "Failed")
           ELSE Step("images", "ImagesResolved", [cv EXCEPT !.content = content])
    /\ UNCHANGED <<lang, walkpos, fs, written, pass_writes, md_seen, lkvars, txvars, tpvars>>

\* for pattern, replacement in self.pukiwiki_rules: content = re.sub(...)
ApplyPukiwikiRules ==
    /\ cpc = "ImagesResolved"
    /\ Step("rules", "RulesApplied", [cv EXCEPT !.content = ApplyRules(1, cv.content)])
    /\ UNCHANGED <<lang, walkpos, fs, written, pass_writes, md_seen, lkvars, txvars, tpvars>>

\* content = self._convert_others(content, page_name)
ConvertOthers ==
    /\ cpc = "RulesApplied"
    /\ Step("others", "MarkupRewritten",
            [cv EXCEPT !.content = _convert_others(cv.content, page_name)])
    /\ UNCHANGED <<lang, walkpos, fs, written, pass_writes, md_seen, lkvars, txvars, tpvars>>

\* out_file = self.output_dir / self.lang / target_file
out_file == << <<lang>> >> \o cv.target

\* orig_path = out_file.parent / f"{out_file.stem}.pwtxt"
orig_path == PathParent(out_file) \o <<Stem(out_file[Len(out_file)]) \o <<".", "pwtxt">> >>

\* open(path, "w") and f.write(content)
WriteOutput(path, content) ==
    /\ fs' = WriteFile(fs, path, content)
    /\ written' = Append(written, [path |-> path, content |-> content])

\* with open(out_file, "w", encoding="utf-8") as f: f.write(content)
WriteMarkdown ==
    /\ cpc = "MarkupRewritten"
    /\ IF cv.io = "md_denied"
       THEN /\ Ends("write_md", "Failed")
            /\ UNCHANGED <<fs, written, pass_writes, md_seen>>
       ELSE /\ Step("write_md", "MarkdownWritten", cv)
            /\ WriteOutput(out_file, cv.content)
            /\ pass_writes' = pass_writes \cup {[path |-> out_file, base |-> cv.base]}
            /\ md_seen' = IF <<lang, cv.base>> \in DOMAIN md_seen THEN md_seen
                          ELSE [k \in DOMAIN md_seen \cup {<<lang, cv.base>>} |->
                                    IF k = <<lang, cv.base>> THEN cv.content
                                    ELSE md_seen[k]]
    /\ UNCHANGED <<lang, walkpos, lkvars, txvars, tpvars>>

\* the backup written from content, the rewritten text, not orig_content
WriteBackupOfContent ==
    /\ cpc = "MarkdownWritten"
    /\ IF cv.io = "backup_denied"
       THEN /\ Ends("write_backup", "Failed")
            /\ UNCHANGED <<fs, written>>
       ELSE /\ Ends("write_backup", "Written")
            /\ WriteOutput(orig_path, cv.content)
    /\ UNCHANGED <<lang, walkpos, pass_writes, md_seen, lkvars, txvars, tpvars>>

\* with orig_path.open("w", encoding="utf-8") as f: f.write(orig_content)
WriteBackup ==
    /\ cpc = "MarkdownWritten"
    /\ IF cv.io = "backup_denied"
       THEN /\ Ends("write_backup", "Failed")
            /\ UNCHANGED <<fs, written>>
       ELSE /\ Ends("write_backup", "Written")
            /\ WriteOutput(orig_path, cv.orig)
    /\ UNCHANGED <<lang, walkpos, pass_writes, md_seen, lkvars, txvars, tpvars>>

----------------------------------------------------------------------------
(* Corpus walker: process_attach, batch_convert_directory and main *)

\* the call is over: back in the loop over source_files, at the next file
NextFile ==
    /\ si' = si + 1
    /\ outcomes' = Append(outcomes, cpc)
    /\ cpc' = "idle" /\ cv' = NoCall /\ trace' = <<>> /\ written' = <<>>

\* converter.lang = "ja"; converter.batch_convert_directory(args.source_dir)
StartJa ==
    /\ mpc = "init"
    /\ mpc' = "ja" /\ lang' = "ja" /\ passes' = <<"ja">>
    /\ UNCHANGED <<tree, fs, run, phase, ai, si, cpc, cv, trace, written, called,
                   logged, outcomes, copied, pass_writes, md_seen, lkvars, txvars, tpvars>>

\* the target of shutil.copyfile in process_attach, or Raised: the assert on
\* the number of components, or decode_name
AttachTarget(src_file) ==
    LET spl == src_file.parts
        decoded == decode_name(spl[1])
        ref_name == decode_name(spl[2])
        attach_page == IF decoded = <<"FrontPage">> THEN <<"index">> ELSE decoded
    IN  IF Len(spl) # 2 THEN Raised
        ELSE IF decoded = Raised \/ ref_name = Raised THEN Raised
        ELSE << <<"assets">>, <<"images">> >> \o PathOf(attach_page) \o PathOf(ref_name)

\* one turn of "for path in attach_files": process_attach on a file without
\* suffix; what it raises leaves batch_convert_directory and main
ProcessAttach ==
    /\ mpc \in {"ja", "en"} /\ phase = "attach" /\ ai <= Len(attach_files)
    /\ LET path == attach_files[ai]
           target == AttachTarget(path)
       IN  IF path.suffix # ""
           THEN /\ ai' = ai + 1
                /\ UNCHANGED <<mpc, fs, copied>>
           ELSE IF target = Raised
           THEN /\ mpc' = "crashed"
                /\ UNCHANGED <<ai, fs, copied>>
           ELSE /\ fs' = WriteFile(fs, target, path.data)
                /\ copied' = Append(copied, ai)
                /\ ai' = ai + 1
                /\ mpc' = mpc
    /\ UNCHANGED <<lang, tree, run, phase, si, cpc, cv, trace, written, called, logged,
                   outcomes, passes, pass_writes, md_seen, lkvars, txvars, tpvars>>

\* source_files = list(source_path.glob(...)) after the last attachment
ListSources ==
    /\ mpc \in {"ja", "en"} /\ phase = "attach" /\ ai > Len(attach_files)
    /\ phase' = "pages" /\ si' = 1
    /\ UNCHANGED <<lang, tree, fs, run, mpc, ai, cpc, cv, trace, written, called, logged,
                   outcomes, copied, passes, pass_writes, md_seen, lkvars, txvars, tpvars>>

\* one turn of "for path in source_files": self.convert_pukiwiki_file(path)
CallConvert ==
    /\ mpc \in {"ja", "en"} /\ phase = "pages" /\ cpc = "idle" /\ si <= Len(source_files)
    /\ cpc' = "Discovered"
    /\ cv' = [NoCall EXCEPT !.base = source_files[si].base, !.io = source_files[si].io]
    /\ called' = Append(called, source_files[si].base)
    /\ UNCHANGED <<lang, tree, fs, run, mpc, phase, ai, si, trace, written, logged,
                   outcomes, copied, passes, pass_writes, md_seen, lkvars, txvars, tpvars>>

\* convert_pukiwiki_file returned: True, or None after the skip
ReturnFromConvert ==
    /\ cpc \in {"Written", "Skipped"}
    /\ NextFile
    /\ UNCHANGED <<lang, tree, fs, run, mpc, phase, ai, called, logged, copied, passes,
                   pass_writes, md_seen, lkvars, txvars, tpvars>>

\* the loop without its except clause: the exception leaves the walk
HandleFailureReraising ==
    /\ cpc = "Failed"
    /\ mpc' = "crashed"
    /\ UNCHANGED <<lang, tree, fs, run, phase, ai, si, cpc, cv, trace, written, called,
                   logged, outcomes, copied, passes, pass_writes, md_seen, lkvars, txvars, tpvars>>

\* the except clause followed by another try on the same file
HandleFailureRetrying ==
    /\ cpc = "Failed"
    /\ logged' = Append(logged, cv.base)
    /\ outcomes' = Append(outcomes, cpc)
    /\ cpc' = "idle" /\ cv' = NoCall /\ trace' = <<>> /\ written' = <<>>
    /\ UNCHANGED <<lang, tree, fs, run, mpc, phase, ai, si, called, copied, passes,
                   pass_writes, md_seen, lkvars, txvars, tpvars>>

\* except Exception as e: logger.error(...)
HandleFailure ==
    /\ cpc = "Failed"
    /\ logged' = Append(logged, cv.base)
    /\ NextFile
    /\ UNCHANGED <<lang, tree, fs, run, mpc, phase, ai, called, copied, passes,
                   pass_writes, md_seen, lkvars, txvars, tpvars>>

\* batch_convert_directory returns; converter.lang = "en" and the second call
StartEn ==
    /\ mpc = "ja" /\ phase = "pages" /\ cpc = "idle" /\ si > Len(source_files)
    /\ mpc' = "en" /\ lang' = "en" /\ passes' = Append(passes, "en")
    /\ phase' = "attach" /\ ai' = 1 /\ si' = 1
    /\ called' = <<>> /\ logged' = <<>> /\ outcomes' = <<>> /\ copied' = <<>>
    /\ pass_writes' = {}
    /\ UNCHANGED <<tree, fs, run, cpc, cv, trace, written, md_seen, lkvars, txvars, tpvars>>

\* the second batch_convert_directory returns, and main
Finish ==
    /\ mpc = "en" /\ phase = "pages" /\ cpc = "idle" /\ si > Len(source_files)
    /\ mpc' = "done"
    /\ UNCHANGED <<lang, tree, fs, run, phase, ai, si, cpc, cv, trace, written, called,
                   logged, outcomes, copied, passes, pass_writes, md_seen, lkvars, txvars, tpvars>>

\* main is started again on the same source tree and output directory
Rerun ==
    /\ mpc \in {"done", "crashed"} /\ run < MaxRuns
    /\ run' = run + 1
    /\ lang' = "unset"
    /\ mpc' = "init" /\ phase' = "attach" /\ ai' = 1 /\ si' = 1
    /\ called' = <<>> /\ logged' = <<>> /\ outcomes' = <<>> /\ copied' = <<>>
    /\ passes' = <<>> /\ pass_writes' = {}
    /\ UNCHANGED <<tree, fs, cpc, cv, trace, written, md_seen, lkvars, txvars, tpvars>>

Next ==
    \/ StartJa \/ ProcessAttach \/ ListSources \/ CallConvert
    \/ DetectEncoding \/ ReadSource \/ DetermineTarget \/ ConvertLinks
    \/ ProcessImages \/ ApplyPukiwikiRules \/ ConvertOthers
    \/ WriteMarkdown \/ WriteBackup
    \/ ReturnFromConvert \/ HandleFailure
    \/ StartEn \/ Finish \/ Rerun

Spec == Init /\ [][Next]_vars

----------------------------------------------------------------------------
(* Properties of the corpus walk and of one call of convert_pukiwiki_file *)

\* the elements of the sequence c whose place in o holds "Failed"
RECURSIVE FailedOf(_, _)
FailedOf(c, o) ==
    IF c = <<>> \/ o = <<>> THEN <<>>
    ELSE (IF Head(o) = "Failed" THEN <<Head(c)>> ELSE <<>>) \o FailedOf(Tail(c), Tail(o))

\* the loop over source_files is between two calls
BetweenCalls == mpc \in {"ja", "en", "done"} /\ phase = "pages" /\ cpc = "idle"

\* the loop over source_files has ended
PassOver == BetweenCalls /\ si > Len(source_files)

\* C1: a call of convert that raises is logged and the walk goes on: between
\* two calls the files passed to convert are the first si - 1 source files in
\* order, each has ended, the log holds exactly those that ended Failed, and
\* when the loop ends every source file has been passed to convert; the walk
\* is never left by an exception while it is in the loop over the pages.
C1_FailureLoggedWalkContinues ==
    /\ mpc = "crashed" => phase = "attach"
    /\ BetweenCalls =>
        /\ si <= Len(source_files) + 1
        /\ called = [k \in 1..(si - 1) |-> source_files[k].base]
        /\ Len(outcomes) = si - 1
        /\ \A k \in 1..Len(outcomes) : outcomes[k] \in Terminal
        /\ logged = FailedOf(called, outcomes)
    /\ PassOver => Len(called) = Len(source_files)

\* a pass over two source files has ended, the first call of which raised
C1_Witness ==
    /\ PassOver
    /\ outcomes = <<"Failed", "Written">>
    /\ logged = <<called[1]>>

\* the attachments of the pass that process_attach is called on
Copyable == {k \in 1..Len(attach_files) : attach_files[k].suffix = ""}

\* C2: a failure of process_attach on one attachment stops nothing else: once
\* main is over, whether or not an attachment failed, both passes have run
\* and every other attachment without suffix has been copied.
C2_AttachmentFailureIsolated ==
    mpc \in {"done", "crashed"} =>
        /\ mpc = "done"
        /\ passes = <<"ja", "en">>
        /\ {copied[k] : k \in 1..Len(copied)}
               = {k \in Copyable : AttachTarget(attach_files[k]) # Raised}

\* the steps of convert_pukiwiki_file in the order of its code
StepOrder == <<"detect", "read", "name", "links", "images", "rules", "others",
               "write_md", "write_backup">>

IsStep(x) == x \notin Terminal

IsTerminal(x) == x \in Terminal

\* the position a call is at before each step of StepOrder
Position == <<"Discovered", "EncodingDetected", "Read", "Named", "LinksResolved",
              "ImagesResolved", "RulesApplied", "MarkupRewritten", "MarkdownWritten">>

\* C3: the steps of a call run in the order of the code, encoding detection,
\* then link resolution, image resolution, the rules and the rest of the
\* markup; a call that has not ended stands before the next step of that
\* order; a call ends in one terminal state, reached once and by the last
\* step it runs: Written after all the steps with both files written,
\* Skipped after the name is known and is FormatRule with nothing written,
\* Failed otherwise; a call that has returned has ended in one of the three.
C3_OrderedStepsOneTerminalState ==
    LET steps == SelectSeq(trace, IsStep)
        ends == SelectSeq(trace, IsTerminal)
    IN  /\ Len(steps) <= Len(StepOrder)
        /\ steps = SubSeq(StepOrder, 1, Len(steps))
        /\ Len(ends) <= 1
        /\ cpc \in Terminal <=> ends # <<>>
        /\ ends # <<>> => ends = <<cpc>> /\ trace[Len(trace)] = cpc
        /\ cpc \notin Terminal \cup {"idle"} =>
            /\ Len(steps) < Len(StepOrder)
            /\ cpc = Position[Len(steps) + 1]
        /\ cpc = "idle" => trace = <<>>
        /\ cpc = "Written" => steps = StepOrder /\ Len(written) = 2
        /\ cpc = "Skipped" =>
            /\ steps = <<"detect", "read", "name">>
            /\ decode_name(cv.base) = <<"FormatRule">>
            /\ written = <<>>
        /\ cpc = "Failed" => Len(written) <= 1
        /\ \A k \in 1..Len(outcomes) : outcomes[k] \in Terminal

\* a call has run every step and ended Written
C3_Witness ==
    /\ cpc = "Written"
    /\ trace = StepOrder \o <<"Written">>
    /\ \E k \in 1..Len(outcomes) : outcomes[k] = "Skipped"

\* C4: a call that ends Written has written two files and no more: first the
\* rewritten text at <language>/<target path> under the output directory,
\* then, in the same directory and with the same stem followed by .pwtxt,
\* the text read from the source file, without any of the rewrites.
C4_WrittenMeansTwoFiles ==
    cpc = "Written" =>
        /\ Len(written) = 2
        /\ LET md == written[1]
               backup == written[2]
               n == Len(md.path)
               name == md.path[n]
               m == Len(name)
           IN  /\ md.path = << <<lang>> >> \o determine_target_filename(cv.base)
               /\ md.content = cv.content
               /\ m >= 2 /\ SubSeq(name, m - 1, m) = <<".", "md">>
               /\ Len(backup.path) = n
               /\ SubSeq(backup.path, 1, n - 1) = SubSeq(md.path, 1, n - 1)
               /\ backup.path[n] = SubSeq(name, 1, m - 2) \o <<".", "pwtxt">>
               /\ backup.content = source_files[si].text
               /\ fs[md.path] = md.content
               /\ fs[backup.path] = backup.content

\* a call has ended Written on a page the rewrites have changed, in a
\* directory below the language directory
C4_Witness ==
    /\ cpc = "Written"
    /\ cv.content # cv.orig
    /\ Len(cv.target) = 2

\* C5: the files written for a source file whose decoded name is FrontPage
\* are index.md and index.pwtxt in the language directory; nothing is
\* written for a source file whose decoded name is FormatRule, and no file
\* of the output directory is named after it.
C5_FrontPageIsIndexFormatRuleSkipped ==
    /\ (cpc # "idle" /\ decode_name(cv.base) = <<"FrontPage">>) =>
        /\ \A k \in 1..Len(written) :
              written[k].path \in { << <<lang>>, <<"index", ".", "md">> >>,
                                    << <<lang>>, <<"index", ".", "pwtxt">> >> }
        /\ cpc = "Written" => written[1].path = << <<lang>>, <<"index", ".", "md">> >>
    /\ (cpc # "idle" /\ decode_name(cv.base) = <<"FormatRule">>) =>
        /\ written = <<>>
        /\ cpc # "Written"
    /\ \A p \in DOMAIN fs :
          p[Len(p)] \notin { <<"FormatRule", ".", "md">>, <<"FormatRule", ".", "pwtxt">> }

\* FrontPage has been written in a pass that skipped FormatRule before
C5_Witness ==
    /\ cpc = "Written"
    /\ decode_name(cv.base) = <<"FrontPage">>
    /\ \E k \in 1..Len(called) :
          decode_name(called[k]) = <<"FormatRule">> /\ outcomes[k] = "Skipped"

\* C6: within one pass, two source files whose decoded names differ are
\* never written to the same Markdown path.
C6_TargetPathsUnique ==
    \A w1, w2 \in pass_writes :
        w1.path = w2.path => decode_name(w1.base) = decode_name(w2.base)

\* C7: the Markdown a call writes for a source file is the Markdown the
\* first call on that file wrote under the same language, whatever has been
\* written to the output directory since, and it is what the file then holds.
C7_ConversionIdempotent ==
    cpc \in {"MarkdownWritten", "Written"} =>
        /\ <<lang, cv.base>> \in DOMAIN md_seen
        /\ written[1].content = md_seen[<<lang, cv.base>>]
        /\ fs[written[1].path] = md_seen[<<lang, cv.base>>]

\* the second run of main has written a page the rewrites change
C7_Witness ==
    /\ run = 2
    /\ cpc = "Written"
    /\ cv.content # cv.orig
    /\ written[1].path \in DOMAIN fs

\* C19: once the attachments are done, a pass gives convert the source files
\* of its language in the order of the enumeration, each once and one at a
\* time, a failed one never again; the pass ends after the last file, when
\* every call has ended in a terminal state.
C19_EachFileOnceInOrder ==
    /\ (mpc \in {"ja", "en", "done"} /\ phase = "pages") =>
        /\ Len(called) <= Len(source_files)
        /\ \A k \in 1..Len(called) : called[k] = source_files[k].base
        /\ Len(outcomes) = (IF cpc = "idle" THEN Len(called) ELSE Len(called) - 1)
        /\ Len(called) = (IF cpc = "idle" THEN si - 1 ELSE si)
        /\ Len(logged) <= Len(outcomes)
    /\ PassOver =>
        /\ Len(called) = Len(source_files)
        /\ \A k \in 1..Len(outcomes) : outcomes[k] \in Terminal
    /\ mpc = "done" => PassOver

\* a pass over two source files has ended, the second call of which raised
C19_Witness ==
    /\ PassOver /\ mpc = "ja"
    /\ Len(called) = 2
    /\ outcomes = <<"Written", "Failed">>

\* the positions of a call before each of its rewriting steps
Rewriting == {"Named", "LinksResolved", "ImagesResolved", "RulesApplied"}

\* the rewriting steps of a call
RewriteSteps == {"links", "images", "rules", "others"}

\* C20: a rewriting step, whether it raises or not, writes no file, and no
\* file has been written for the page before it; a call that a rewriting
\* step has ended leaves the output directory as it was.
C20_NoWriteUntilRewritten ==
    [][ /\ cpc \in Rewriting => (fs' = fs /\ written = <<>> /\ written' = <<>>)
        /\ (cpc = "Failed" /\ trace[Len(trace) - 1] \in RewriteSteps) =>
               (fs' = fs /\ written = <<>>) ]_vars

\* the image step has raised in the second run, with the output of the first
\* run in the output directory
C20_Witness ==
    /\ cpc = "Failed"
    /\ trace = <<"detect", "read", "name", "links", "images", "Failed">>
    /\ run = 2
    /\ fs # NoFiles
    /\ written = <<>>

----------------------------------------------------------------------------
(* The link resolver as a function of its inputs: every call is made once  *)
(* on a token drawn from LinkTargets, on a page of LinkPages, under a      *)
(* language of Langs.                                                      *)

Langs == {"ja", "en"}

LinkPages == { << <<"index">> >>, << <<"a">> >>, << <<"a">>, <<"b">> >> }

LinkTexts == { <<"label">> }

LinkTargets == {
    <<".", "/", "c">>,
    <<".", ".", "/", "c">>,
    <<"#", "sec1">>,
    <<"http", ":", "/", "/", "x", ".", "org">>,
    <<"OtherPage">>,
    <<"cuemol2", "/", "Tube">>,
    <<"/", "en", "/", "index", ".", "php", "?", "cuemol2", "%2F", "Tube">>,
    <<"/", "ja", "/", "index", ".", "php", "?", "Doc", "%3A", "x">>,
    <<"http", ":", "/", "/", "x", ".", "org", "/", "en", "/", "index", ".", "php", "?", "Doc">> }

LinkCalls == {"repl", "label", "colon", "bare"}

NotCalled == <<>>

\* the wiki text of the token in each bracket grammar
LinkToken(call, text, target) ==
    IF call = "label" THEN <<"[", "[">> \o text \o <<">">> \o target \o <<"]", "]">>
    ELSE IF call = "colon" THEN <<"[", "[">> \o text \o <<":">> \o target \o <<"]", "]">>
    ELSE <<"[", "[">> \o target \o <<"]", "]">>

InitLinks ==
    /\ lang \in Langs
    /\ lk_page \in LinkPages
    /\ lk_text \in LinkTexts
    /\ lk_target \in LinkTargets
    /\ lk_res = [c \in LinkCalls |-> NotCalled]
    /\ WalkIdle
    /\ TextIdle
    /\ TopIdle

\* _repl called on a match whose groups are (text, target)
CallRepl ==
    /\ lk_res["repl"] = NotCalled
    /\ lk_res' = [lk_res EXCEPT !["repl"] = _repl(<<lk_text, lk_target>>, lk_page)]
    /\ UNCHANGED <<lang, walkvars, lk_page, lk_text, lk_target, txvars, tpvars>>

\* _convert_internal_links called on the token written in grammar g
ConvertToken(g) ==
    /\ lk_res[g] = NotCalled
    /\ lk_res' = [lk_res EXCEPT
                    ![g] = _convert_internal_links(LinkToken(g, lk_text, lk_target), lk_page)]
    /\ UNCHANGED <<lang, walkvars, lk_page, lk_text, lk_target, txvars, tpvars>>

ConvertLabel == ConvertToken("label")

ConvertColon == ConvertToken("colon")

ConvertBare == ConvertToken("bare")

NextLinks == CallRepl \/ ConvertLabel \/ ConvertColon \/ ConvertBare

SpecLinks == InitLinks /\ [][NextLinks]_vars

----------------------------------------------------------------------------
(* Properties of the link resolver *)

PageAB == << <<"a">>, <<"b">> >>

\* the index of the first "]" of a Markdown link "[text](target)"
CloseAt(out) == CHOOSE k \in 1..Len(out) : out[k] = "]" /\ \A j \in 1..(k - 1) : out[j] # "]"

\* the text and the target of a Markdown link "[text](target)"
OutText(out) == SubSeq(out, 2, CloseAt(out) - 1)

OutTarget(out) == SubSeq(out, CloseAt(out) + 2, Len(out) - 1)

\* out is one Markdown link and nothing else
IsMarkdownLink(out) ==
    /\ Len(out) >= 4
    /\ out[1] = "[" /\ out[Len(out)] = ")"
    /\ \E k \in 1..Len(out) : out[k] = "]"
    /\ out[CloseAt(out) + 1] = "("

\* what _repl returned, when it has been called on page a/b in the default
\* language with this link
ResolvedOnAB(link, target) ==
    (lang = "ja" /\ lk_page = PageAB /\ lk_target = link /\ lk_res["repl"] # NotCalled)
        => lk_res["repl"] = <<"[">> \o lk_text \o <<"]", "(">> \o target \o <<")">>

\* a/b/c, a/c and OtherPage as paths from the site root
RootABC == <<"/", "a", "/", "b", "/", "c">>

RootAC == <<"/", "a", "/", "c">>

RootOtherPage == <<"/", "OtherPage">>

\* C8 as the specification has it: on page a/b in the default language ./c
\* resolves to /a/b/c, ../c to /a/c, #sec1 to #sec1, http://x.org to itself
\* and OtherPage to /OtherPage.
C8_RootAbsoluteTargets ==
    /\ ResolvedOnAB(<<".", "/", "c">>, RootABC)
    /\ ResolvedOnAB(<<".", ".", "/", "c">>, RootAC)
    /\ ResolvedOnAB(<<"#", "sec1">>, <<"#", "sec1">>)
    /\ ResolvedOnAB(<<"http", ":", "/", "/", "x", ".", "org">>,
                    <<"http", ":", "/", "/", "x", ".", "org">>)
    /\ ResolvedOnAB(<<"OtherPage">>, RootOtherPage)

\* the way from page a/b up to the directory of the language
UpFromAB == <<".", ".", "/", ".", ".">>

\* C8: on page a/b in the default language ./c resolves to ../../a/b/c, ../c
\* to ../../a/c and OtherPage to ../../OtherPage, the paths from the site
\* root behind the way up from the page; #sec1 and http://x.org resolve to
\* themselves; a token that carries a label resolves to the same link.
C8_TopDirRelativeTargets ==
    /\ ResolvedOnAB(<<".", "/", "c">>, UpFromAB \o RootABC)
    /\ ResolvedOnAB(<<".", ".", "/", "c">>, UpFromAB \o RootAC)
    /\ ResolvedOnAB(<<"#", "sec1">>, <<"#", "sec1">>)
    /\ ResolvedOnAB(<<"http", ":", "/", "/", "x", ".", "org">>,
                    <<"http", ":", "/", "/", "x", ".", "org">>)
    /\ ResolvedOnAB(<<"OtherPage">>, UpFromAB \o RootOtherPage)
    /\ \A g \in {"label", "colon"} :
          (lk_res["repl"] # NotCalled /\ lk_res[g] # NotCalled) => lk_res[g] = lk_res["repl"]

\* ./c has been resolved on page a/b in the default language, directly and
\* from a token with a label
C8_Witness ==
    /\ lang = "ja" /\ lk_page = PageAB /\ lk_target = <<".", "/", "c">>
    /\ lk_res["repl"] # NotCalled
    /\ lk_res["label"] # NotCalled

\* the path has the directory seg in it
HasSegment(path, seg) ==
    \E i \in 1..(Len(path) - 2) : path[i] = "/" /\ path[i + 1] = seg /\ path[i + 2] = "/"

\* C9: whatever the grammar of the token, the resolved target of an anchor or
\* of an external link has no language directory; that of a same-page,
\* parent-relative or bare link has the directory of the current language
\* exactly when it is not the default; that of a cross-language link has the
\* directory of the language in the link exactly when it is not the default.
C9_LanguageSegment ==
    \A c \in LinkCalls :
        lk_res[c] # NotCalled =>
            /\ IsMarkdownLink(lk_res[c])
            /\ LET class == LinkClass(lk_target)
                   target == OutTarget(lk_res[c])
               IN  CASE class \in {"anchor", "external"} ->
                            \A l \in Langs : ~HasSegment(target, l)
                     [] class = "cross_language" ->
                            LET embedded == CrossSearch(lk_target).groups[1]
                            IN  /\ Len(embedded) = 1
                                /\ HasSegment(target, embedded[1]) <=> ~is_default_lang(embedded)
                     [] OTHER ->
                            HasSegment(target, lang) <=> ~is_default_lang(<<lang>>)

\* C10: the target t is resolved to the same link target in the three
\* grammars, [[text>t]], [[text:t]] and [[t]], and the text of the link made
\* from [[t]] is t.
C10_SameTargetInEveryGrammar ==
    (lk_res["label"] # NotCalled /\ lk_res["colon"] # NotCalled /\ lk_res["bare"] # NotCalled)
        => /\ \A g \in {"label", "colon", "bare"} : IsMarkdownLink(lk_res[g])
           /\ OutTarget(lk_res["colon"]) = OutTarget(lk_res["label"])
           /\ OutTarget(lk_res["bare"]) = OutTarget(lk_res["label"])
           /\ OutText(lk_res["bare"]) = lk_target

----------------------------------------------------------------------------
(* The markup engine and the filename codec as functions of their inputs:  *)
(* the rewrites of convert_pukiwiki_file are applied one at a time, in the *)
(* order of the code, to a page body drawn from TextBodies, on the page    *)
(* TextPage; decode_name is called on a file base drawn from TextBases.    *)

TextPage == << <<"a">> >>

\* an image directive: its path and its raw options
ImageCases ==
    { [path |-> <<"foo", ".", "png">>, opts |-> << <<"50", "%">>, <<"nolink">> >>],
      [path |-> <<"bar", ".", "jpg">>, opts |-> <<>>],
      [path |-> <<"bar", ".", "jpg">>, opts |-> << <<"nolink">> >>],
      [path |-> <<"bar", ".", "jpg">>, opts |-> << <<"25", "%">> >>],
      [path |-> <<"bar", ".", "jpg">>, opts |-> << <<"nolink">>, <<"50", "%">> >>],
      [path |-> <<"bar", ".", "jpg">>, opts |-> << <<"25", "%">>, <<"100", "%">> >>] }

\* the inline directive &ref(path,option,...);
ImageDirective(c) ==
    <<"&", "ref", "(">> \o Join(<<c.path>> \o c.opts, <<",">>) \o <<")", ";">>

\* a heading line: its sigils, the space after them and its title
HeadingCases ==
    [level : 1..3, gap : {<<>>, <<" ">>},
     title : {<<"Title">>, <<"A">>, <<"Two", " ", "words">>}]

HeadingLine(c) == [d \in 1..c.level |-> "*"] \o c.gap \o c.title

TextBodies ==
    {ImageDirective(c) : c \in ImageCases}
    \cup {HeadingLine(c) : c \in HeadingCases}
    \cup {<<"intro", NL>> \o HeadingLine(c) \o <<NL, "more", " ", "text">> : c \in HeadingCases}
    \cup {
    <<"a", "\n", " ", "b", "\n", " ", "c", "\n", "d">>,
    <<"a", "\n", " ", "b", "\n", " ", "c">>,
    <<" ", "b">>,
    <<" ", "b", "\n", "\n", " ", "c", "\n", "d">>,
    <<"a", "\n", "\"", "b", "\"", "\n", "<", "pre", ">", "\n", "c", "\n", "<", "/", "pre", ">">>,
    <<"%", "%", "x", "%", "%">>,
    <<"%", "%", "x", "%", "%", " ", "y">>,
    <<"see", " ", "%", "%", "x", "%", "%", "~">>,
    <<"[", "[", "label", ">", "a", "_", "_", "b", "_", "_", "c", "]", "]">>,
    <<"&", "ref", "(", "my", "_", "_", "pic", "_", "_", ".", "png", ")", ";">>,
    <<"_", "_", "x", "_", "_", " ", "and", " ", "[", "[", "Doc", "]", "]">>,
    <<"'", "'", "'", "x", "'", "'", "'">>,
    <<"'", "'", "x", "'", "'">>,
    <<"'", "'", "x", "'", "'", " ", "and", " ", "'", "'", "'", "y", "'", "'", "'">>,
    <<"a", "\n", "-", "bc", "\n", "-", "de">>,
    <<"-", "bc", "\n", "-", "-", "de">>,
    <<"a", "\n", "\n", "-", "bc">>,
    <<"-", "bc", "\n", "\n", "+", "de">>,
    <<"a", "\n", "-", "bc", "\n", "d", "\n", "+", "ef", "\n", "+", "+", "gh", "\n", " ", "\n", "-", "ij">>,
    <<":", "term", "|", "desc", "\n", "-", "bc">>,
    <<"#", "contents", "\n", ">", "quoted", "\n", "/", "/", "note", "\n", "&", "aname", "(", "sec1", ")", ";", "text", "\n", "#", "youtube", "(", "abc", ",", "loop", ")", "\n", "end", "~">>,
    <<"#", "ref", "(", "bar", ".", "jpg", ",", "25", "%", ")", "\n", "text">>,
    <<"&", "ref", "(", "foo", ".", "png", ",", "big", "%", ")", ";">> }

\* the file bases of the source trees, and one that is not hex
TextBases == ValidHex \cup {"ZZ"}

\* the rewrites in the order convert_pukiwiki_file runs them: the two
\* resolvers, the rules of pukiwiki_rules, the passes of _convert_others
MarkupSteps ==
    <<"links", "images",
      "access", "contents", "quote1", "quote2", "heading1", "heading2", "heading3",
      "bold", "italic", "strike", "underline",
      "comments", "pre", "code", "deflist", "lists", "anchors", "youtube", "linebreak">>

FirstRule == 3

FirstOther == 14

InitText ==
    /\ lang \in Langs
    /\ tx_body \in TextBodies
    /\ tx_log = <<>> /\ tx_prev = <<>> /\ tx_cur = tx_body
    /\ tx_hex \in TextBases
    /\ tx_name = NotCalled
    /\ WalkIdle
    /\ LinksIdle
    /\ TopIdle

\* the step k of MarkupSteps has turned tx_cur into out
Rewritten(k, out) ==
    /\ Len(tx_log) = k - 1
    /\ tx_cur # Raised
    /\ tx_log' = Append(tx_log, MarkupSteps[k])
    /\ tx_prev' = tx_cur
    /\ tx_cur' = out
    /\ UNCHANGED <<lang, walkvars, lkvars, tx_body, tx_hex, tx_name, tpvars>>

\* content = self._convert_internal_links(orig_content, page_name)
TextLinks == Rewritten(1, _convert_internal_links(tx_cur, TextPage))

\* content = self._process_images(content, page_name)
TextImages == Rewritten(2, _process_images(tx_cur, TextPage))

\* one turn of the loop over self.pukiwiki_rules
TextRule ==
    \E r \in 1..NumRules : Rewritten(FirstRule + r - 1, RuleSub(r, tx_cur, 1))

\* one pass of _convert_others over the lines; the first splits the content
\* and the last joins the lines
TextOthers ==
    \/ Rewritten(FirstOther, RemoveComments(SplitLines(tx_cur)))
    \/ Rewritten(FirstOther + 1, ConvertPre(tx_cur))
    \/ Rewritten(FirstOther + 2, CodeBlocks(tx_cur, FALSE))
    \/ Rewritten(FirstOther + 3, DefLists(tx_cur))
    \/ Rewritten(FirstOther + 4, Lists(tx_cur, FALSE, FALSE))
    \/ Rewritten(FirstOther + 5, Anchors(tx_cur))
    \/ Rewritten(FirstOther + 6, Youtube(tx_cur))
    \/ Rewritten(FirstOther + 7, Join(LineBreaks(tx_cur), <<NL>>))

\* decode_name(file_base)
TextDecode ==
    /\ tx_name = NotCalled
    /\ tx_name' = decode_name(tx_hex)
    /\ UNCHANGED <<lang, walkvars, lkvars, tx_body, tx_log, tx_prev, tx_cur, tx_hex, tpvars>>

NextText == TextLinks \/ TextImages \/ TextRule \/ TextOthers \/ TextDecode

SpecText == InitText /\ [][NextText]_vars

\* the step has just been applied
After(step) == tx_log # <<>> /\ tx_log[Len(tx_log)] = step

\* every rewrite has been applied
Rewrote == Len(tx_log) = Len(MarkupSteps)

----------------------------------------------------------------------------
(* Properties of the markup engine and of the filename codec *)

\* the lines with every maximal run of code lines between two fences
FencedRuns(lines) ==
    Flatten([k \in 1..Len(lines) |->
        IF IsCodeLine(lines[k])
        THEN (IF k = 1 \/ ~IsCodeLine(lines[k - 1]) THEN <<Fence>> ELSE <<>>)
             \o <<Tail(lines[k])>>
             \o (IF k = Len(lines) \/ ~IsCodeLine(lines[k + 1]) THEN <<Fence>> ELSE <<>>)
        ELSE <<lines[k]>>])

\* C11: the code-block pass puts one opening fence before every maximal run
\* of lines that begin with a space and one closing fence after it, wherever
\* the run is, also at the end of the page.
C11_EveryRunFenced ==
    After("code") => tx_cur = FencedRuns(tx_prev)

\* the place spec 4.4 gives each rewrite of the markup engine
Rank(step) ==
    CASE step \in {"links", "images"} -> 0
      [] step \in {"access", "contents"} -> 1
      [] step \in {"quote1", "quote2"} -> 2
      [] step = "comments" -> 3
      [] step \in {"pre", "code"} -> 4
      [] step \in {"heading1", "heading2", "heading3"} -> 5
      [] step = "deflist" -> 6
      [] step = "lists" -> 7
      [] step = "anchors" -> 8
      [] step = "youtube" -> 9
      [] step = "linebreak" -> 10
      [] OTHER -> 11

\* C12: the rewrites are applied in the order of spec 4.4: directives,
\* blockquotes, comments, preformatted and code blocks, headings, definition
\* lists, lists, anchors, video, line break, and the inline styles last.
C12_StepsInSpecOrder ==
    \A i, j \in 1..Len(tx_log) : i < j => Rank(tx_log[i]) <= Rank(tx_log[j])

\* the option is a number followed by a percent sign
IsPercent(opt) == Len(opt) = 2 /\ opt[2] = "%"

\* the number of a percent option divided by 100, as Python prints it
Hundredth(n) ==
    CASE n = "50" -> <<"0", ".", "5">>
      [] n = "25" -> <<"0", ".", "25">>
      [] n = "100" -> <<"1", ".", "0">>

ZoomStyle(opt) == <<"style", "=", "\"", "zoom", ":", " ">> \o Hundredth(opt[1]) \o <<"\"">>

LightboxClass == <<".", "on", "-", "glb">>

\* the options the annotation of an image should show for these raw options
ExpectedOptions(opts) ==
    LET percents == SelectSeq(opts, IsPercent)
    IN  [k \in 1..Len(percents) |-> ZoomStyle(percents[k])]
        \o (IF \E k \in 1..Len(opts) : opts[k] = <<"nolink">> THEN <<>>
            ELSE <<LightboxClass>>)

\* the way from page a up to the output directory
UpFromA == IF lang = "ja" THEN <<".", ".">> ELSE <<".", ".", "/", ".", ".">>

\* ![alt](path) for an image file of page a
ExpectedImage(alt, file) ==
    <<"!", "[", alt, "]", "(">> \o UpFromA
    \o <<"/", "assets", "/", "images", "/", "a", "/">> \o file \o <<")">>

FooCase == [path |-> <<"foo", ".", "png">>, opts |-> << <<"50", "%">>, <<"nolink">> >>]

BarCase == [path |-> <<"bar", ".", "jpg">>, opts |-> <<>>]

\* C13: the annotation of an image lists one zoom style, the number divided
\* by 100, for each percent option, in the order of the raw options, and the
\* lightbox class last, which is there exactly when no option is nolink; the
\* braces are there exactly when there is an option to show.  So
\* "foo.png,50%,nolink" gives alt foo with zoom 0.5 and no lightbox class,
\* and "bar.jpg" gives alt bar with the lightbox class alone.
C13_ImageOptionsInOrder ==
    After("images") =>
        /\ \A c \in ImageCases :
              tx_body = ImageDirective(c) =>
                  LET options == ExpectedOptions(c.opts)
                  IN  tx_cur = ExpectedImage(c.path[1], c.path)
                               \o (IF options = <<>> THEN <<>>
                                   ELSE <<"{", " ">> \o Join(options, <<" ">>) \o <<" ", "}">>)
        /\ tx_body = ImageDirective(FooCase) =>
              tx_cur = ExpectedImage("foo", <<"foo", ".", "png">>)
                       \o <<"{", " ", "style", "=", "\"", "zoom", ":", " ", "0", ".", "5",
                            "\"", " ", "}">>
        /\ tx_body = ImageDirective(BarCase) =>
              tx_cur = ExpectedImage("bar", <<"bar", ".", "jpg">>)
                       \o <<"{", " ", ".", "on", "-", "glb", " ", "}">>

\* an image with two percent options has been translated
C13_Witness ==
    /\ After("images")
    /\ tx_body = ImageDirective([path |-> <<"bar", ".", "jpg">>,
                                 opts |-> << <<"25", "%">>, <<"100", "%">> >>])
    /\ tx_cur # Raised

\* the Markdown heading of this level with this title
Heading(level, title) == [d \in 1..level |-> "#"] \o <<" ">> \o title

\* C14: once the three heading rules have run, a line of one, two or three
\* sigils followed by a title is the Markdown heading of level two, three or
\* four with that title: never of level one, and rewritten by one rule only.
C14_HeadingLevels ==
    After("heading3") =>
        \A c \in HeadingCases :
            tx_body = HeadingLine(c) => tx_cur = Heading(c.level + 1, c.title)

StrikeBody == <<"%", "%", "x", "%", "%">>

TargetBodies == { <<"[", "[", "label", ">", "a", "_", "_", "b", "_", "_", "c", "]", "]">>,
                  <<"&", "ref", "(", "my", "_", "_", "pic", "_", "_", ".", "png", ")", ";">> }

\* C15: no rewrite changes what an earlier one produced: the "~~x~~" made
\* of "%%x%%" at the end of a line is still there after the line-break
\* pass, and the link and the image made by the resolvers are left as they
\* are by each of the bold, italic, strikethrough and underline rules.
C15_EarlierOutputKept ==
    /\ (tx_body = StrikeBody /\ After("linebreak")) => tx_cur = <<"~", "~", "x", "~", "~">>
    /\ (tx_body \in TargetBodies /\ \E r \in {"bold", "italic", "strike", "underline"} : After(r))
          => tx_cur = tx_prev

Quote3 == <<"'", "'", "'">>

Quote2 == <<"'", "'">>

\* C16: once the bold and the italic rule have run, '''x''' is *x* and
\* ''x'' is **x**: the bold rule leaves a span in triple quotes alone.
C16_ItalicAndBold ==
    After("italic") =>
        /\ tx_body = Quote3 \o <<"x">> \o Quote3 => tx_cur = <<"*", "x", "*">>
        /\ tx_body = Quote2 \o <<"x">> \o Quote2 => tx_cur = <<"*", "*", "x", "*", "*">>

\* line k of lines is a list item
IsItem(lines, k) == is_list(lines[k]) # NotList

\* the lines with every list item rewritten, and a blank line before each
\* item that follows neither an item nor a blank line
SpacedLists(lines) ==
    Flatten([k \in 1..Len(lines) |->
        IF ~IsItem(lines, k) THEN <<lines[k]>>
        ELSE IF k > 1 /\ (IsItem(lines, k - 1) \/ lines[k - 1] = <<>>)
             THEN <<is_list(lines[k])>>
        ELSE << <<>>, is_list(lines[k]) >>])

\* C17: the list pass rewrites every list item and puts one blank line
\* before an item that is the first line of the page or follows a line that
\* is neither an item nor blank, and none before an item that follows an
\* item or a blank line: in its output every item has an item or a blank
\* line right before it.
C17_BlankLineBeforeList ==
    After("lists") => tx_cur = SpacedLists(tx_prev)

\* the pass has run on a page with a list after text, a nested list and a
\* list after a line of one space
C17_Witness ==
    /\ After("lists")
    /\ tx_body = <<"a", NL, "-", "bc", NL, "d", NL, "+", "ef", NL, "+", "+", "gh", NL,
                   " ", NL, "-", "ij">>
    /\ Len(tx_cur) = Len(tx_prev) + 3

\* C18: decode_name gives the name the legacy Japanese codec decodes, else
\* the name the universal codec decodes, unsafe characters replaced; it
\* returns None when neither codec decodes the bytes, and raises only for a
\* file base that is not hex.
C18_DecodeOrderAndNone ==
    tx_name # NotCalled =>
        tx_name = IF tx_hex \notin ValidHex THEN Raised
                  ELSE IF EucJp(tx_hex) # DecodeFail THEN Sanitize(EucJp(tx_hex))
                  ELSE IF Utf8(tx_hex) # DecodeFail THEN Sanitize(Utf8(tx_hex))
                  ELSE None

----------------------------------------------------------------------------
(* The path prefix as a function of the page name and of the language *)

\* the longest page name, in parts
MaxDepth == 3

\* the page names get_top_dir is given: up to MaxDepth parts, each index, a or b
TopPages ==
    LET parts == {<<"index">>, <<"a">>, <<"b">>}
    IN  UNION {[1..n -> parts] : n \in 1..MaxDepth}

\* converter.lang = "ja" in main, before any call
InitTop ==
    /\ lang = "ja"
    /\ tp_page \in TopPages
    /\ tp_dir = [l \in Langs |-> NotCalled]
    /\ WalkIdle
    /\ LinksIdle
    /\ TextIdle

\* top_dir = self.get_top_dir(page_name)
TopCall ==
    /\ tp_dir[lang] = NotCalled
    /\ tp_dir' = [tp_dir EXCEPT ![lang] = get_top_dir(tp_page)]
    /\ UNCHANGED <<lang, walkvars, lkvars, txvars, tp_page>>

\* converter.lang = "en" in main
TopSetLang ==
    /\ lang = "ja"
    /\ lang' = "en"
    /\ UNCHANGED <<walkvars, lkvars, txvars, tpvars>>

NextTop == TopCall \/ TopSetLang

SpecTopDir == InitTop /\ [][NextTop]_vars

----------------------------------------------------------------------------
(* Properties of the path prefix *)

\* the number of directory levels a prefix climbs: its ".." segments
Levels(prefix) == IF prefix = <<".">> THEN 0 ELSE (Len(prefix) + 1) \div 3

\* C21: the prefix get_top_dir computes for a page name under the language
\* en climbs exactly one directory level more than the prefix it computes for
\* the same page name under the default language ja, the front page index
\* included.
C21_OneMoreLevelOffDefault ==
    (tp_dir # <<>> /\ tp_dir["ja"] # NotCalled /\ tp_dir["en"] # NotCalled) =>
        Levels(tp_dir["en"]) = Levels(tp_dir["ja"]) + 1

====
